---- MODULE Spec2Model ----
(***************************************************************************)
(* A model of textwrap.js (src/index.js): the whitespace normalizer, the   *)
(* chunk tokenizer, the line packer (TextWrapper._wrap_chunks with         *)
(* _handle_long_word), shorten() and dedent().                             *)
(*                                                                         *)
(* A JavaScript string is a sequence of one-character strings; a chunk     *)
(* list is a sequence of such strings. The packer is a state machine: one  *)
(* action per call (wrap, _wrap_chunks' checks) and one per iteration of   *)
(* the outer loop of _wrap_chunks.                                         *)
(***************************************************************************)
EXTENDS Integers, Sequences, FiniteSets, TLC

VARIABLES pc, text, cfg, normalized, chunks, lines, err, stop, result

vars == <<pc, text, cfg, normalized, chunks, lines, err, stop, result>>

(***************************************************************************)
(* Characters.                                                             *)
(***************************************************************************)
SP == " "
TAB == "\t"
NL == "\n"
CR == "\r"
FF == "\f"
VT == "VT"

\* The characters String.prototype.trim (trimStart, trimEnd) removes, among
\* those the model uses: white space and line terminators.
TrimChars == {SP, TAB, NL, VT, FF, CR}

\* The class [\t\n\x0b\x0c\r ] of wordsep_re.
WordsepWhitespace == {TAB, NL, VT, FF, CR, SP}

\* The class [\t\n\x0b\x0c\r] of wordsep_simple_re: no space in it.
SimpleWhitespace == {TAB, NL, VT, FF, CR}

\* The line terminators after which ^ matches (and before which $ matches)
\* under the m flag.
LineTerminators == {NL, CR}

(***************************************************************************)
(* String primitives.                                                      *)
(***************************************************************************)
Max(S) == CHOOSE m \in S : \A n \in S : n <= m

Min(S) == CHOOSE m \in S : \A n \in S : m <= n

\* s.substring(a, b) for 0 <= a <= b: the characters at 0-based a .. b-1,
\* both ends clamped to the length.
Substring(s, a, b) ==
    LET lo == IF a > Len(s) THEN Len(s) ELSE a
        hi == IF b > Len(s) THEN Len(s) ELSE b
    IN  SubSeq(s, lo + 1, hi)

\* s.substring(a)
SubstringFrom(s, a) == Substring(s, a, Len(s))

\* s.trimStart()
TrimStart(s) ==
    LET keep == {i \in 1..Len(s) : s[i] \notin TrimChars}
    IN  IF keep = {} THEN <<>> ELSE SubSeq(s, Min(keep), Len(s))

\* s.trimEnd()
TrimEnd(s) ==
    LET keep == {i \in 1..Len(s) : s[i] \notin TrimChars}
    IN  IF keep = {} THEN <<>> ELSE SubSeq(s, 1, Max(keep))

\* s.trim()
Trim(s) == TrimEnd(TrimStart(s))

\* " ".repeat(n)
RECURSIVE Repeat(_, _)
Repeat(c, n) == IF n <= 0 THEN <<>> ELSE <<c>> \o Repeat(c, n - 1)

\* arr.join(''): the concatenation of a list of strings.
RECURSIVE Join(_)
Join(arr) == IF arr = <<>> THEN <<>> ELSE Head(arr) \o Join(Tail(arr))

\* arr.join(sep)
RECURSIVE JoinWith(_, _)
JoinWith(arr, sep) ==
    IF arr = <<>> THEN <<>>
    ELSE IF Len(arr) = 1 THEN arr[1]
    ELSE arr[1] \o sep \o JoinWith(Tail(arr), sep)

\* sum(map(cur_line, l => l.length))
RECURSIVE SumLen(_)
SumLen(arr) == IF arr = <<>> THEN 0 ELSE Len(Head(arr)) + SumLen(Tail(arr))

\* arr.reverse()
Reverse(arr) == [i \in 1..Len(arr) |-> arr[Len(arr) + 1 - i]]

\* text.replace(c, rep) with a string pattern, or with a regular expression
\* that has no g flag and matches the one character c: the FIRST occurrence
\* only is replaced.
ReplaceFirstChar(s, c, rep) ==
    LET at == {i \in 1..Len(s) : s[i] = c}
    IN  IF at = {} THEN s
        ELSE SubSeq(s, 1, Min(at) - 1) \o rep \o SubSeq(s, Min(at) + 1, Len(s))

(***************************************************************************)
(* The whitespace normalizer.                                              *)
(***************************************************************************)
\* text.replace(/\t/, " ".repeat(size)): the pattern has no g flag.
expandTabs(t, size) == ReplaceFirstChar(t, TAB, Repeat(SP, size))

\* The keys of unicode_whitespace_trans in the order of Object.entries
\* (integer keys ascending: 9, 10, 11, 12, 13, 32); every value is 32.
unicode_whitespace_trans == <<TAB, NL, VT, FF, CR, SP>>

\* for each [f, s] of the table: text = text.replace(fromCharCode(f), " ").
RECURSIVE translateFrom(_, _, _)
translateFrom(t, table, k) ==
    IF k > Len(table) THEN t
    ELSE translateFrom(ReplaceFirstChar(t, table[k], <<SP>>), table, k + 1)

translate(t, table) == translateFrom(t, table, 1)

_munge_whitespace(c, t) ==
    LET t1 == IF c.expand_tabs THEN expandTabs(t, c.tabsize) ELSE t
    IN  IF c.replace_whitespace THEN translate(t1, unicode_whitespace_trans) ELSE t1

(***************************************************************************)
(* The chunk tokenizer.                                                    *)
(***************************************************************************)
\* The end (1-based, inclusive) of the maximal run of characters of `class`
\* (or, with inside = FALSE, of characters outside it) that starts at q.
RECURSIVE RunEnd(_, _, _, _)
RunEnd(t, q, class, inside) ==
    IF q < Len(t) /\ ((t[q + 1] \in class) = inside)
    THEN RunEnd(t, q + 1, class, inside)
    ELSE q

\* wordsep_re matched at position q (1-based); the result is the last
\* position of the match, 0 when there is none. The pattern is written for a
\* verbose mode JavaScript does not have, so its spaces are literal and \Z is
\* the letter Z. Of its alternatives,
\*   [\t\n\x0b\x0c\r ]+                          a whitespace run;
\*   (?<=[\w!"'&.,?]) -{2,} (?=\w)               starts with a literal space,
\*       where the first alternative has already matched: never taken;
\*   [^\t\n\x0b\x0c\r ]+? (?:A|B|C)              a word, ONE space, and then
\*       A = -(?: (?<=..-) | (?<=..-))(?=..)     a lookbehind for "-" right
\*           after a space: never matches;
\*       B = (?=[\t\n\x0b\x0c\r ]|\Z)            the next character is
\*           whitespace or the letter Z;
\*       C = (?<=[\w!"'&.,?]) (?=-{2,}\w)        a lookbehind for a word
\*           character right after a space: never matches.
wordsep_re(t, q) ==
    IF t[q] \in WordsepWhitespace
    THEN RunEnd(t, q, WordsepWhitespace, TRUE)
    ELSE LET w == RunEnd(t, q, WordsepWhitespace, FALSE)
         IN  IF /\ w + 2 <= Len(t)
                /\ t[w + 1] = SP
                /\ (t[w + 2] \in WordsepWhitespace \/ t[w + 2] = "Z")
             THEN w + 1
             ELSE 0

\* wordsep_simple_re = /([\t\n\x0b\x0c\r]+)/ matched at position q.
wordsep_simple_re(t, q) ==
    IF t[q] \in SimpleWhitespace
    THEN RunEnd(t, q, SimpleWhitespace, TRUE)
    ELSE 0

\* The pattern of the mode, matched at q.
MatchSep(hyphens, t, q) ==
    IF hyphens THEN wordsep_re(t, q) ELSE wordsep_simple_re(t, q)

\* String.prototype.split with a pattern that has one capture group, which
\* is the whole match: p is the start of the pending piece, q the position
\* tried next (both 1-based). The piece before each match and the match
\* itself are pushed; the rest of the text is pushed at the end.
RECURSIVE SplitFrom(_, _, _, _)
SplitFrom(hyphens, t, p, q) ==
    IF q > Len(t) THEN <<SubSeq(t, p, Len(t))>>
    ELSE LET e == MatchSep(hyphens, t, q)
         IN  IF e = 0 THEN SplitFrom(hyphens, t, p, q + 1)
             ELSE <<SubSeq(t, p, q - 1), SubSeq(t, q, e)>>
                  \o SplitFrom(hyphens, t, e + 1, e + 1)

\* chunks.filter(c => c): the empty strings are dropped.
FilterNonEmpty(arr) == SelectSeq(arr, LAMBDA c : c # <<>>)

_split(c, t) == FilterNonEmpty(SplitFrom(c.break_on_hyphens, t, 1, 1))

_split_chunks(c, t) == _split(c, _munge_whitespace(c, t))

(***************************************************************************)
(* The sentence-ending fixer.                                              *)
(***************************************************************************)
Lowercase ==
    {"a", "b", "c", "d", "e", "f", "g", "h", "i", "j", "k", "l", "m",
     "n", "o", "p", "q", "r", "s", "t", "u", "v", "w", "x", "y", "z"}

\* chunk.match(sentence_end_re) with sentence_end_re = /[a-z][.!?]["']?\Z/:
\* unanchored, and \Z is the letter Z.
sentence_end_re(chunk) ==
    \E k \in 1..Len(chunk) :
        /\ chunk[k] \in Lowercase
        /\ k + 2 <= Len(chunk)
        /\ chunk[k + 1] \in {".", "!", "?"}
        /\ \/ chunk[k + 2] = "Z"
           \/ /\ chunk[k + 2] \in {"\"", "'"}
              /\ k + 3 <= Len(chunk)
              /\ chunk[k + 3] = "Z"

\* The loop of _fix_sentence_endings from index i (0-based in the code,
\* 1-based here).
RECURSIVE FixFrom(_, _)
FixFrom(arr, i) ==
    IF i >= Len(arr) THEN arr
    ELSE IF arr[i + 1] = <<SP>> /\ sentence_end_re(arr[i])
         THEN FixFrom([arr EXCEPT ![i + 1] = <<SP, SP>>], i + 2)
         ELSE FixFrom(arr, i + 1)

_fix_sentence_endings(arr) == FixFrom(arr, 1)

(***************************************************************************)
(* The line packer.                                                        *)
(***************************************************************************)
\* The chunk stack is the reversed chunk list: its top is its last element.
Top(stack) == stack[Len(stack)]

Pop(stack) == SubSeq(stack, 1, Len(stack) - 1)

\* chunk.trim() == ''
IsBlank(chunk) == Trim(chunk) = <<>>

\* space_left of _handle_long_word.
SpaceLeft(cur_len, width) == IF width < 1 THEN 1 ELSE width - cur_len

\* chunk.substring(0, space_left).lastIndexOf('-'): 0-based, -1 when absent.
LastHyphen(chunk, space_left) ==
    LET pre == Substring(chunk, 0, space_left)
        at  == {i \in 1..Len(pre) : pre[i] = "-"}
    IN  IF at = {} THEN 0 - 1 ELSE Max(at) - 1

\* `end` of _handle_long_word: space_left, or just after the last hyphen of
\* the part that fits when non-hyphens come before that hyphen.
BreakEnd(c, chunk, space_left) ==
    IF c.break_on_hyphens /\ Len(chunk) > space_left
    THEN LET hyphen == LastHyphen(chunk, space_left)
         IN  IF /\ hyphen > 0
                /\ \E i \in 1..hyphen : chunk[i] # "-"
             THEN hyphen + 1
             ELSE space_left
    ELSE space_left

\* _handle_long_word: the chunk stack and the current line after the call,
\* and whether the call threw. With break_long_words off the code reads
\* this.cur_line.length, and a TextWrapper has no cur_line property: the
\* read of .length of undefined throws a TypeError.
_handle_long_word(c, reversed_chunks, cur_line, cur_len, width) ==
    LET space_left == SpaceLeft(cur_len, width)
        chunk      == Top(reversed_chunks)
        end        == BreakEnd(c, chunk, space_left)
    IN  IF c.break_long_words
        THEN [chunks   |-> [reversed_chunks EXCEPT ![Len(reversed_chunks)] =
                               SubstringFrom(chunk, end)],
              cur_line |-> Append(cur_line, Substring(chunk, 0, end)),
              thrown   |-> FALSE]
        ELSE [chunks |-> reversed_chunks, cur_line |-> cur_line, thrown |-> TRUE]

\* this.max_lines is null (<<>>) or a number (<<n>>).
null == <<>>

\* CheckIndent with the choice on max_lines lost: the indent of the first
\* line whatever max_lines is.
CheckIndent_FirstLineOnly(c) == c.initial_indent

\* The indent the placeholder check of _wrap_chunks uses.
CheckIndent(c) ==
    IF c.max_lines[1] > 1 THEN c.subsequent_indent ELSE c.initial_indent

\* The error _wrap_chunks throws before packing, "none" when it throws none.
ConfigError(c) ==
    IF c.width <= 0 THEN "invalid width"
    ELSE IF /\ c.max_lines # null
            /\ Len(CheckIndent(c)) + Len(TrimStart(c.placeholder)) > c.width
         THEN "placeholder too large"
         ELSE "none"

\* The indent of the line being built.
LineIndent(c, ls) ==
    IF ls # <<>> THEN c.subsequent_indent ELSE c.initial_indent

\* The stack after the drop of a leading whitespace chunk.
DropLeading(c, stack, ls) ==
    IF c.drop_whitespace /\ IsBlank(Top(stack)) /\ ls # <<>>
    THEN Pop(stack)
    ELSE stack

\* The inner loop: chunks are moved to the line while they fit.
RECURSIVE Fill(_, _, _, _)
Fill(stack, cur_line, cur_len, width) ==
    IF stack # <<>> /\ cur_len + Len(Top(stack)) <= width
    THEN Fill(Pop(stack), Append(cur_line, Top(stack)),
              cur_len + Len(Top(stack)), width)
    ELSE [chunks |-> stack, cur_line |-> cur_line, cur_len |-> cur_len]

\* The long-word step after the inner loop.
LongWord(c, f, width) ==
    IF f.chunks # <<>> /\ Len(Top(f.chunks)) > width
    THEN LET h == _handle_long_word(c, f.chunks, f.cur_line, f.cur_len, width)
         IN  [chunks |-> h.chunks, cur_line |-> h.cur_line,
              cur_len |-> SumLen(h.cur_line), thrown |-> h.thrown]
    ELSE [chunks |-> f.chunks, cur_line |-> f.cur_line,
          cur_len |-> f.cur_len, thrown |-> FALSE]

\* The drop of a trailing whitespace chunk.
DropTrailing(c, w) ==
    IF /\ c.drop_whitespace
       /\ w.cur_line # <<>>
       /\ IsBlank(w.cur_line[Len(w.cur_line)])
    THEN [w EXCEPT !.cur_line = Pop(w.cur_line),
                   !.cur_len = w.cur_len - Len(w.cur_line[Len(w.cur_line)])]
    ELSE w

\* EmitWhole with the line count compared by <= in place of <.
EmitWhole_OffByOne(c, ls, w, width) ==
    \/ c.max_lines = null
    \/ Len(ls) + 1 <= c.max_lines[1]
    \/ /\ \/ w.chunks = <<>>
          \/ /\ c.drop_whitespace
             /\ Len(w.chunks) = 1
             /\ IsBlank(w.chunks[1])
       /\ w.cur_len <= width

\* The condition under which the line is stored as it is.
EmitWhole(c, ls, w, width) ==
    \/ c.max_lines = null
    \/ Len(ls) + 1 < c.max_lines[1]
    \/ /\ \/ w.chunks = <<>>
          \/ /\ c.drop_whitespace
             /\ Len(w.chunks) = 1
             /\ IsBlank(w.chunks[1])
       /\ w.cur_len <= width

\* The truncation loop: chunks are taken off the end of the line until the
\* placeholder fits after a chunk that is not blank. The result is the line
\* with the placeholder, or <<>> when the line ran empty (flag stays false).
RECURSIVE Truncate(_, _, _, _)
Truncate(c, cur_line, cur_len, width) ==
    IF cur_line = <<>> THEN <<>>
    ELSE IF /\ ~IsBlank(cur_line[Len(cur_line)])
            /\ cur_len + Len(c.placeholder) <= width
         THEN Append(cur_line, c.placeholder)
         ELSE Truncate(c, Pop(cur_line),
                       cur_len - Len(cur_line[Len(cur_line)]), width)

\* What follows a truncation loop that ran the line empty: the lines, and
\* which path was taken.
AfterEmptied(c, ls, indent) ==
    IF ls # <<>>
    THEN LET prev_line == TrimEnd(ls[Len(ls)])
         IN  IF Len(prev_line) + Len(c.placeholder) <= c.width
             THEN [lines |-> [ls EXCEPT ![Len(ls)] = prev_line \o c.placeholder],
                   stop  |-> "prev_line"]
             ELSE [lines |-> Append(ls, indent \o TrimEnd(c.placeholder)),
                   stop  |-> "placeholder_only"]
    ELSE [lines |-> ls, stop |-> "nothing"]

\* One iteration of the outer loop of _wrap_chunks on a stack that is not
\* empty: the stack and the lines after it, whether the loop was left by a
\* break (stop # "none") and whether _handle_long_word threw.
Iteration(c, stack, ls) ==
    LET indent == LineIndent(c, ls)
        width  == c.width - Len(indent)
        s1     == DropLeading(c, stack, ls)
        f      == Fill(s1, <<>>, 0, width)
        lw     == LongWord(c, f, width)
        w      == DropTrailing(c, lw)
    IN  IF lw.thrown
        THEN [chunks |-> lw.chunks, lines |-> ls, stop |-> "none", thrown |-> TRUE]
        ELSE IF w.cur_line = <<>>
        THEN [chunks |-> w.chunks, lines |-> ls, stop |-> "none", thrown |-> FALSE]
        ELSE IF EmitWhole(c, ls, w, width)
        THEN [chunks |-> w.chunks, lines |-> Append(ls, indent \o Join(w.cur_line)),
              stop |-> "none", thrown |-> FALSE]
        ELSE LET t == Truncate(c, w.cur_line, w.cur_len, width)
             IN  IF t # <<>>
                 THEN [chunks |-> w.chunks, lines |-> Append(ls, indent \o Join(t)),
                       stop |-> "cur_line", thrown |-> FALSE]
                 ELSE LET a == AfterEmptied(c, ls, indent)
                      IN  [chunks |-> w.chunks, lines |-> a.lines,
                           stop |-> a.stop, thrown |-> FALSE]

(***************************************************************************)
(* shorten() and fill().                                                   *)
(***************************************************************************)
\* s.split(" "): the pieces between single spaces, empty pieces included.
RECURSIVE SplitOnSpace(_)
SplitOnSpace(s) ==
    LET at == {i \in 1..Len(s) : s[i] = SP}
    IN  IF at = {} THEN <<s>>
        ELSE <<SubSeq(s, 1, Min(at) - 1)>>
             \o SplitOnSpace(SubSeq(s, Min(at) + 1, Len(s)))

\* text.trim().split(" ").filter(e => e).join(' ') of shorten.
Collapse(t) == JoinWith(FilterNonEmpty(SplitOnSpace(Trim(t))), <<SP>>)

(***************************************************************************)
(* dedent().                                                               *)
(***************************************************************************)
\* Whether ^ matches before position i (1-based) under the m flag.
LineStart(t, i) == i = 1 \/ t[i - 1] \in LineTerminators

\* Whether $ matches after position j under the m flag.
LineEnd(t, j) == j = Len(t) \/ t[j + 1] \in LineTerminators

\* The end of the match of [ \t]+ (or [ \t]*) started at i: i - 1 when no
\* space or tab is there.
BlankRunEnd(t, i) ==
    IF i <= Len(t) /\ t[i] \in {SP, TAB}
    THEN RunEnd(t, i, {SP, TAB}, TRUE)
    ELSE i - 1

\* text.replace(_whitespace_only_re, '') with /^[ \t]+$/m: no g flag, so the
\* first line made only of spaces and tabs is emptied and no other.
ReplaceWhitespaceOnly(t) ==
    LET at == {i \in 1..Len(t) :
                  /\ LineStart(t, i)
                  /\ BlankRunEnd(t, i) >= i
                  /\ LineEnd(t, BlankRunEnd(t, i))}
    IN  IF at = {} THEN t
        ELSE SubSeq(t, 1, Min(at) - 1) \o SubSeq(t, BlankRunEnd(t, Min(at)) + 1, Len(t))

\* text.match(_leading_whitespace_re) with /(^[ \t]*)(?:[^ \t\n])/gm: the
\* matches from position i on, each the spaces and tabs at a line start and
\* the character after them, which is none of space, tab, newline. Each
\* match is given without that last character, as the loop of dedent cuts it.
RECURSIVE IndentsFrom(_, _)
IndentsFrom(t, i) ==
    IF i > Len(t) THEN <<>>
    ELSE LET e == BlankRunEnd(t, i)
         IN  IF /\ LineStart(t, i)
                /\ e + 1 <= Len(t)
                /\ t[e + 1] \notin {SP, TAB, NL}
             THEN <<SubSeq(t, i, e)>> \o IndentsFrom(t, e + 2)
             ELSE IndentsFrom(t, i + 1)

\* indent.startsWith(margin)
StartsWith(s, prefix) ==
    Len(prefix) <= Len(s) /\ SubSeq(s, 1, Len(prefix)) = prefix

\* The zip loop: margin cut at the first position where it differs from
\* indent (a position past the end of indent differs).
CommonPrefix(margin, indent) ==
    LET diff == {i \in 1..Len(margin) : i > Len(indent) \/ margin[i] # indent[i]}
    IN  IF diff = {} THEN margin ELSE SubSeq(margin, 1, Min(diff) - 1)

\* The loop over the indents; margin is <<m>> once set and <<>> (undefined)
\* before.
RECURSIVE MarginFrom(_, _, _)
MarginFrom(indents, k, margin) ==
    IF k > Len(indents) THEN margin
    ELSE LET indent == indents[k]
         IN  IF margin = <<>> THEN MarginFrom(indents, k + 1, <<indent>>)
             ELSE IF StartsWith(indent, margin[1])
                  THEN MarginFrom(indents, k + 1, margin)
             ELSE IF StartsWith(margin[1], indent)
                  THEN MarginFrom(indents, k + 1, <<indent>>)
             ELSE MarginFrom(indents, k + 1, <<CommonPrefix(margin[1], indent)>>)

\* text.replace(new RegExp('^' + margin, 'gm'), ''): the margin is removed
\* at every line start where it stands.
RECURSIVE StripMargin(_, _, _)
StripMargin(t, margin, i) ==
    IF i > Len(t) THEN <<>>
    ELSE IF /\ margin # <<>>
            /\ LineStart(t, i)
            /\ StartsWith(SubSeq(t, i, Len(t)), margin)
         THEN StripMargin(t, margin, i + Len(margin))
         ELSE <<t[i]>> \o StripMargin(t, margin, i + 1)

\* dedent(text): thrown when text.match() gave null (no match), which the
\* for-of loop cannot iterate.
dedent(t) ==
    LET t1      == ReplaceWhitespaceOnly(t)
        indents == IndentsFrom(t1, 1)
        margin  == MarginFrom(indents, 1, <<>>)
    IN  IF indents = <<>>
        THEN [thrown |-> TRUE, value |-> <<>>]
        ELSE [thrown |-> FALSE, value |-> StripMargin(t1, margin[1], 1)]

(***************************************************************************)
(* Bounds and input sets.                                                  *)
(***************************************************************************)
MaxTextLen == 4

MaxWidth == 3

MaxOutLines == 5

MaxChunks == 4

MaxDedentLen == 5

MaxShortenLen == 4

\* All strings over `alphabet` of length at most n.
Strings(alphabet, n) == UNION {[1..k -> alphabet] : k \in 0..n}

\* The options of the constructor at their defaults.
DefaultConfig ==
    [width                |-> 70,
     initial_indent       |-> <<>>,
     subsequent_indent    |-> <<>>,
     expand_tabs          |-> TRUE,
     replace_whitespace   |-> TRUE,
     fix_sentence_endings |-> FALSE,
     break_long_words     |-> TRUE,
     drop_whitespace      |-> TRUE,
     break_on_hyphens     |-> TRUE,
     tabsize              |-> 8,
     max_lines            |-> null,
     placeholder          |-> <<" ", "[", ".", ".", ".", "]">>]

Widths == (0 - 1)..MaxWidth

Indents == {<<>>, <<">">>, <<">", ">">>}

Placeholders == {<<SP, ".">>, <<".">>}

MaxLinesValues == {null, <<1>>, <<2>>, <<3>>}

\* The configurations of the packer runs.
Configs ==
    {[DefaultConfig EXCEPT !.width = w, !.initial_indent = ii,
                           !.subsequent_indent = si, !.break_long_words = blw,
                           !.drop_whitespace = dw, !.break_on_hyphens = boh,
                           !.max_lines = ml, !.placeholder = ph] :
        w \in Widths, ii \in Indents, si \in Indents, blw \in BOOLEAN,
        dw \in BOOLEAN, boh \in BOOLEAN, ml \in MaxLinesValues,
        ph \in Placeholders}

Texts == Strings({"a", SP, "-"}, MaxTextLen)

(***************************************************************************)
(* The state machine.                                                      *)
(*   pc          where the call stands: "wrap" (wrap() called),            *)
(*               "wrap_chunks" (_wrap_chunks() called), "loop" (in its     *)
(*               outer loop), "done" (the lines are returned), "filled"    *)
(*               (fill() has joined them), "error" (an exception left the  *)
(*               call); "shorten", "dedent", "dedented", "dedented_twice"  *)
(*               for the calls of shorten() and dedent()                   *)
(*   text        the argument of the public call                           *)
(*   cfg         the fields of the TextWrapper                             *)
(*   normalized  the text as _munge_whitespace returned it                 *)
(*   chunks      the chunk list; in the loop, the reversed stack           *)
(*   lines       the local `lines` of _wrap_chunks                         *)
(*   err         the exception thrown, "none" when none                    *)
(*   stop        which break left the loop at the truncation point         *)
(*   result      the string fill(), shorten() or dedent() returned         *)
(***************************************************************************)
Start(p, t, c, ch) ==
    /\ pc = p
    /\ text = t
    /\ cfg = c
    /\ normalized = <<>>
    /\ chunks = ch
    /\ lines = <<>>
    /\ err = "none"
    /\ stop = "none"
    /\ result = <<>>

Init == \E t \in Texts, c \in Configs : Start("wrap", t, c, <<>>)

\* wrap(text) up to its call of _wrap_chunks.
Wrap ==
    /\ pc = "wrap"
    /\ normalized' = _munge_whitespace(cfg, text)
    /\ chunks' = LET split == _split(cfg, _munge_whitespace(cfg, text))
                 IN  IF cfg.fix_sentence_endings
                     THEN _fix_sentence_endings(split)
                     ELSE split
    /\ pc' = "wrap_chunks"
    /\ UNCHANGED <<text, cfg, lines, err, stop, result>>

\* _wrap_chunks(chunks) up to its outer loop: the two checks, the reversal.
WrapChunks ==
    /\ pc = "wrap_chunks"
    /\ IF ConfigError(cfg) # "none"
       THEN /\ pc' = "error"
            /\ err' = ConfigError(cfg)
            /\ UNCHANGED chunks
       ELSE /\ pc' = "loop"
            /\ chunks' = Reverse(chunks)
            /\ UNCHANGED err
    /\ UNCHANGED <<text, cfg, normalized, lines, stop, result>>

\* One iteration of the outer loop. A run that would not end is cut at
\* MaxOutLines lines.
WrapLine ==
    /\ pc = "loop"
    /\ chunks # <<>>
    /\ Len(lines) < MaxOutLines
    /\ LET it == Iteration(cfg, chunks, lines)
       IN  /\ chunks' = it.chunks
           /\ lines' = it.lines
           /\ stop' = it.stop
           /\ err' = IF it.thrown THEN "TypeError" ELSE err
           /\ pc' = IF it.thrown THEN "error"
                    ELSE IF it.stop # "none" THEN "done"
                    ELSE "loop"
    /\ UNCHANGED <<text, cfg, normalized, result>>

\* The outer loop ends on the empty stack: return lines.
WrapReturn ==
    /\ pc = "loop"
    /\ chunks = <<>>
    /\ pc' = "done"
    /\ UNCHANGED <<text, cfg, normalized, chunks, lines, err, stop, result>>

Next == Wrap \/ WrapChunks \/ WrapLine \/ WrapReturn

Spec == Init /\ [][Next]_vars

(***************************************************************************)
(* The packer called on a chunk list: _wrap_chunks(chunks), each chunk all *)
(* whitespace or free of whitespace.                                       *)
(***************************************************************************)
Chunks == {<<"a">>, <<"a", "a", "a">>, <<SP>>, <<SP, SP>>}

ChunkLists == UNION {[1..k -> Chunks] : k \in 0..MaxChunks}

ChunkConfigs ==
    {[DefaultConfig EXCEPT !.width = w, !.subsequent_indent = si,
                           !.drop_whitespace = dw, !.break_on_hyphens = boh] :
        w \in 1..MaxWidth, si \in {<<>>, <<">">>}, dw \in BOOLEAN,
        boh \in BOOLEAN}

InitChunks ==
    \E ch \in ChunkLists, c \in ChunkConfigs : Start("wrap_chunks", <<>>, c, ch)

NextChunks == WrapChunks \/ WrapLine \/ WrapReturn

SpecChunks == InitChunks /\ [][NextChunks]_vars

(***************************************************************************)
(* wrap() on texts with tabs and line breaks, under the default options    *)
(* but for expand_tabs and replace_whitespace.                             *)
(***************************************************************************)
MungeTexts == Strings({"a", TAB, NL, CR}, MaxTextLen)

MungeConfigs ==
    {[DefaultConfig EXCEPT !.expand_tabs = et, !.replace_whitespace = rw,
                           !.break_on_hyphens = boh] :
        et \in BOOLEAN, rw \in BOOLEAN, boh \in BOOLEAN}

InitMunge == \E t \in MungeTexts, c \in MungeConfigs : Start("wrap", t, c, <<>>)

SpecMunge == InitMunge /\ [][Next]_vars

(***************************************************************************)
(* shorten(text, width) with no options.                                   *)
(***************************************************************************)
ShortenTexts == Strings({"a", SP, TAB, NL}, MaxShortenLen)

ShortenWidths == 4..12

InitShorten ==
    \E t \in ShortenTexts, w \in ShortenWidths :
        Start("shorten", t, [DefaultConfig EXCEPT !.width = w], <<>>)

\* shorten(text, width) up to the call of _wrap_chunks: the TextWrapper is
\* built with max_lines 1, and fill() and wrap() are entered with the
\* collapsed text.
Shorten ==
    /\ pc = "shorten"
    /\ cfg' = [cfg EXCEPT !.max_lines = <<1>>]
    /\ normalized' = _munge_whitespace(cfg', Collapse(text))
    /\ chunks' = LET split == _split(cfg', _munge_whitespace(cfg', Collapse(text)))
                 IN  IF cfg'.fix_sentence_endings
                     THEN _fix_sentence_endings(split)
                     ELSE split
    /\ pc' = "wrap_chunks"
    /\ UNCHANGED <<text, lines, err, stop, result>>

\* fill(): this.wrap(text).join("\n")
FillJoin ==
    /\ pc = "done"
    /\ result' = JoinWith(lines, <<NL>>)
    /\ pc' = "filled"
    /\ UNCHANGED <<text, cfg, normalized, chunks, lines, err, stop>>

NextShorten ==
    Shorten \/ WrapChunks \/ WrapLine \/ WrapReturn \/ FillJoin

SpecShorten == InitShorten /\ [][NextShorten]_vars

(***************************************************************************)
(* dedent(text), and dedent() of what it returned.                         *)
(***************************************************************************)
DedentTexts == Strings({"a", SP, TAB, NL}, MaxDedentLen)

InitDedent == \E t \in DedentTexts : Start("dedent", t, DefaultConfig, <<>>)

\* dedent(text)
Dedent ==
    /\ pc = "dedent"
    /\ LET d == dedent(text)
       IN  /\ pc' = IF d.thrown THEN "error" ELSE "dedented"
           /\ err' = IF d.thrown THEN "TypeError" ELSE err
           /\ result' = d.value
    /\ UNCHANGED <<text, cfg, normalized, chunks, lines, stop>>

\* dedent(result): the call is made on what the first call returned, which
\* becomes the argument.
DedentAgain ==
    /\ pc = "dedented"
    /\ text' = result
    /\ LET d == dedent(result)
       IN  /\ pc' = IF d.thrown THEN "error" ELSE "dedented_twice"
           /\ err' = IF d.thrown THEN "TypeError" ELSE err
           /\ result' = d.value
    /\ UNCHANGED <<cfg, normalized, chunks, lines, stop>>

NextDedent == Dedent \/ DedentAgain

SpecDedent == InitDedent /\ [][NextDedent]_vars

(***************************************************************************)
(* The claims.                                                             *)
(***************************************************************************)
\* s ends with suffix.
EndsWith(s, suffix) ==
    Len(suffix) <= Len(s) /\ SubSeq(s, Len(s) - Len(suffix) + 1, Len(s)) = suffix

\* The part of line i after its indent.
Content(i) ==
    LET indent == IF i = 1 THEN cfg.initial_indent ELSE cfg.subsequent_indent
    IN  SubSeq(lines[i], Len(indent) + 1, Len(lines[i]))

\* C1: with width > 0 and break_long_words on, every line wrap() returns is
\* at most width long, its indent included. Stated here for the
\* configurations whose two indents are shorter than width, where the bound
\* can be met at all.
C1_LinesWithinWidth ==
    (/\ pc = "done"
     /\ cfg.break_long_words
     /\ cfg.width > 0
     /\ Len(cfg.initial_indent) < cfg.width
     /\ Len(cfg.subsequent_indent) < cfg.width)
    => \A i \in 1..Len(lines) : Len(lines[i]) <= cfg.width

\* C2: with max_lines set, wrap() returns at most max_lines lines, whichever
\* way the truncation went.
C2_AtMostMaxLines ==
    (pc = "done" /\ cfg.max_lines # null) => Len(lines) <= cfg.max_lines[1]

\* C2's case: the truncation added a line that holds the placeholder alone,
\* and the result has max_lines lines.
C2_Witness ==
    /\ pc = "done"
    /\ cfg.max_lines # null
    /\ stop = "placeholder_only"
    /\ Len(lines) = cfg.max_lines[1]

\* C3: when wrap() stops at the truncation point, the result is not empty
\* and its last line ends with the placeholder, whole or trimmed.
C3_TruncationShowsPlaceholder ==
    (pc = "done" /\ stop # "none")
    => /\ lines # <<>>
       /\ \/ EndsWith(lines[Len(lines)], cfg.placeholder)
          \/ EndsWith(lines[Len(lines)], TrimStart(cfg.placeholder))
          \/ EndsWith(lines[Len(lines)], TrimEnd(cfg.placeholder))
          \/ EndsWith(lines[Len(lines)], Trim(cfg.placeholder))

\* C4: with break_long_words off, a chunk longer than the effective width
\* makes wrap() raise no error: the only errors are those of the
\* configuration checks.
C4_LongWordNoError ==
    (~cfg.break_long_words /\ pc = "error")
    => err \in {"invalid width", "placeholder too large"}

\* The configurations C5 calls invalid.
C5_Invalid ==
    \/ cfg.width <= 0
    \/ /\ cfg.max_lines # null
       /\ LET applicable == IF cfg.max_lines[1] > 1
                            THEN cfg.subsequent_indent
                            ELSE cfg.initial_indent
          IN  Len(applicable) + Len(TrimStart(cfg.placeholder)) > cfg.width

\* C5: wrap() fails with a configuration error exactly when width <= 0 or
\* max_lines is set and the applicable indent plus the placeholder without
\* its leading whitespace is longer than width; it does so for every text and
\* before any line is produced; and with break_long_words on, no other
\* configuration raises an error.
C5_ConfigErrorIff ==
    (pc \notin {"wrap", "wrap_chunks"})
    => /\ C5_Invalid <=> (pc = "error" /\ err \in {"invalid width", "placeholder too large"})
       /\ C5_Invalid => lines = <<>>
       /\ (~C5_Invalid /\ cfg.break_long_words) => (pc # "error" /\ err = "none")

\* C5's case: the placeholder check fails wrap() of the empty text.
C5_Witness ==
    /\ pc = "error"
    /\ text = <<>>
    /\ cfg.width > 0
    /\ err = "placeholder too large"

\* C6: dedent() of a text with no non-blank line raises no error and returns
\* the text with its whitespace-only lines emptied.
C6_BlankTextReturned ==
    (pc # "dedent" /\ \A i \in 1..Len(text) : text[i] \in {SP, TAB, NL})
    => /\ pc # "error"
       /\ result = SelectSeq(text, LAMBDA ch : ch = NL)

\* C7: dedent(dedent(text)) = dedent(text) for a text with a non-blank line.
\* After the second call, text is what the first call returned.
C7_DedentIdempotent ==
    pc = "dedented_twice" => result = text

\* The words of t: its maximal runs of characters that are not whitespace.
RECURSIVE C8_Words(_)
C8_Words(t) ==
    LET s == TrimStart(t)
        e == IF s = <<>> THEN 0 ELSE RunEnd(s, 1, TrimChars, FALSE)
    IN  IF s = <<>> THEN <<>>
        ELSE <<SubSeq(s, 1, e)>> \o C8_Words(SubSeq(s, e + 1, Len(s)))

\* C8: shorten() collapses every run of whitespace, tabs and newlines
\* included, to one space and trims the ends; a collapsed text that fits in
\* width is returned as it is.
C8_ShortenCollapses ==
    (pc = "filled" /\ Len(JoinWith(C8_Words(text), <<SP>>)) <= cfg.width)
    => result = JoinWith(C8_Words(text), <<SP>>)

\* No tab, newline, vertical tab, form feed or carriage return in s.
C9_Clean(s) == \A i \in 1..Len(s) : s[i] \notin {TAB, NL, VT, FF, CR}

\* C9: with replace_whitespace on, the normalized text holds no tab, newline,
\* vertical tab, form feed or carriage return, and neither does any line
\* wrap() returns.
C9_WhitespaceReplaced ==
    (cfg.replace_whitespace /\ pc # "wrap")
    => /\ C9_Clean(normalized)
       /\ pc = "done" => \A i \in 1..Len(lines) : C9_Clean(lines[i])

\* C10: with drop_whitespace and break_long_words on and max_lines unset, on
\* chunks each all whitespace or free of it, no line's content ends with
\* whitespace and no line's but the first begins with it.
C10_NoEdgeWhitespace ==
    (/\ pc \in {"loop", "done"}
     /\ cfg.drop_whitespace
     /\ cfg.break_long_words
     /\ cfg.max_lines = null)
    => \A i \in 1..Len(lines) :
          LET content == Content(i)
          IN  content # <<>>
              => /\ content[Len(content)] \notin TrimChars
                 /\ i > 1 => content[1] \notin TrimChars

\* The three ways out of the truncation point are all taken.
StopCurLine == ~(pc = "done" /\ stop = "cur_line")

StopPrevLine == ~(pc = "done" /\ stop = "prev_line")

StopNothing == ~(pc = "done" /\ stop = "nothing")

\* C11: every iteration of the outer loop of the packer stops all processing
\* or strictly decreases the number of characters in the pending chunks.
\* Stated here with two allowances: an iteration may also leave the stack
\* empty, or leave by the exception of _handle_long_word.
C11_IterationProgress ==
    [][(pc = "loop" /\ chunks # <<>> /\ cfg.width > 0)
       => \/ pc' \in {"done", "error"}
          \/ chunks' = <<>>
          \/ SumLen(chunks') < SumLen(chunks)]_vars

\* C12: every chunk the tokenizer returns is non-empty and is all whitespace
\* or free of whitespace, in both modes. With fix_sentence_endings off, the
\* chunks wrap() hands to _wrap_chunks are those _split returned.
C12_ChunksUnmixed ==
    (pc = "wrap_chunks" /\ ~cfg.fix_sentence_endings)
    => \A k \in 1..Len(chunks) :
          /\ chunks[k] # <<>>
          /\ \/ \A i \in 1..Len(chunks[k]) : chunks[k][i] \in TrimChars
             \/ \A i \in 1..Len(chunks[k]) : chunks[k][i] \notin TrimChars

====
